---- MODULE Spec2Model ----
(***************************************************************************)
(* State generation subsystem of the beacon node (package stategen):       *)
(* the store facade SaveState, the hot region manager (saveHotState,       *)
(* loadHotStateByRoot, loadHotStateBySlot) and the collaborators they      *)
(* call (hot state cache, beacon DB, lastSavedState, lastSavedBlock,       *)
(* LoadBlocks, ReplayBlocks, saveColdState, cold migration), and the       *)
(* slasher's detection of attester slashings (package detection:           *)
(* DetectAttesterSlashings, detectDoubleVote, detectSurroundVotes) with    *)
(* hashutil.HashProto.  No function takes a lock: every access of shared   *)
(* state is a step of its own, and every store access may fail.            *)
(***************************************************************************)
EXTENDS Integers, Sequences, FiniteSets, TLC

(* ------------------------------ bounds --------------------------------- *)
\* number of non-genesis blocks the node may receive
MaxBlocks == 2
\* highest slot a block may have
MaxSlot == 3
\* capacity of the hot state cache
CacheSize == 1
\* epoch length E (params.BeaconConfig().SlotsPerEpoch)
SlotsPerEpoch == 2
\* number of non-genesis blocks received while two callers run concurrently
\* or the snapshots are followed as objects
MaxBlocksSteps == 1

\* slasher: the epochs, validator indices and signature prefixes of the
\* attestations, and the number of attestations the slasher store holds
MaxEpoch == 3

MaxValidator == 2

MaxSig == 0

MaxAtts == 2
\* beacon block roots an attestation's data may vote for: 0..MaxRoot
MaxRoot == 1

(* ------------------------------ values --------------------------------- *)
\* a block root is the hash of the block: it is determined by the block's
\* slot, its parent root and its body (the k-th block of that slot and parent)
BlockRoot(slot, parent, k) == <<slot, parent, k>>

\* the zero root
NoRoot == <<>>

GenesisRoot == BlockRoot(0, NoRoot, 0)

\* a root no block hashes to
UnknownRoot == BlockRoot(0, NoRoot, 1)

Slots == 0..MaxSlot

\* a nil *state.BeaconState
NilState == [slot |-> 0, head |-> NoRoot]

\* put key k with value v into the map f
MapPut(f, k, v) == [x \in (DOMAIN f) \cup {k} |-> IF x = k THEN v ELSE f[x]]

\* restriction of the map f to the keys in S
MapRestrict(f, S) == [x \in (DOMAIN f) \cap S |-> f[x]]

VARIABLES
  blocks,         \* beaconDB blocks: root -> [slot, parent]
  dbStates,       \* beaconDB full states (hot section): root -> snapshot
  dbSummaries,    \* beaconDB state summaries: root -> [slot, root]
  coldStates,     \* archived states of the cold section: root -> snapshot
  hotStateCache,  \* LRU cache, least recently used first: Seq([root, st])
  splitInfo,      \* s.splitInfo: [slot, root]
  savedCached,    \* history: the roots that a saveHotState call succeeded
                  \* for and that have been in the cache ever since
  heap,           \* the *state.BeaconState objects in use: pointer -> content
  cacheObj,       \* the pointer the cache holds for each cached root
  callerObj,      \* the pointer the last caller still holds (0: none)
  proc,           \* the calls in progress, one per concurrent caller:
                  \* position in the code and local variables
  dbOrder,        \* the order in which the beacon DB lists the entries of
                  \* one slot, ascending or descending in their keys, once a
                  \* lookup has shown it
  slasherDB,      \* slasher store: the indexed attestations, in the order
                  \* a lookup lists them
  detection       \* the DetectAttesterSlashings call in progress: position
                  \* in the code and local variables

\* the snapshots as objects, followed only where callers mutate in place
objVars == <<heap, cacheObj, callerObj>>

\* the slasher's detection service
detectVars == <<slasherDB, detection>>

\* the state of stategen
stategenVars == <<blocks, dbStates, dbSummaries, coldStates, hotStateCache,
                  splitInfo, savedCached, heap, cacheObj, callerObj, proc,
                  dbOrder>>

vars == <<blocks, dbStates, dbSummaries, coldStates, hotStateCache, splitInfo,
          savedCached, heap, cacheObj, callerObj, proc, dbOrder,
          slasherDB, detection>>

(* ------------------------- helpers (core/helpers) ---------------------- *)
IsEpochStart(slot) == slot % SlotsPerEpoch = 0

SlotToEpoch(slot) == slot \div SlotsPerEpoch

StartSlot(epoch) == epoch * SlotsPerEpoch

\* interval of archived points in the cold section
SlotsPerArchivedPoint == 2 * SlotsPerEpoch

(* --------------------------- block tree -------------------------------- *)
\* the post-state of the block with this root: the snapshot the block
\* processing pipeline hands to SaveState together with the root
PostState(root) == [slot |-> blocks[root].slot, head |-> root]

(* --------------------------- hot state cache --------------------------- *)
RECURSIVE cacheIndex(_, _, _)
cacheIndex(c, root, i) ==
  IF i > Len(c) THEN 0
  ELSE IF c[i].root = root THEN i
  ELSE cacheIndex(c, root, i + 1)

cacheHas(c, root) == cacheIndex(c, root, 1) # 0

cacheGet(c, root) ==
  IF cacheHas(c, root) THEN c[cacheIndex(c, root, 1)].st ELSE NilState

cacheRemove(c, root) == SelectSeq(c, LAMBDA e : e.root # root)

\* a hit makes the entry the most recently used one
cacheTouch(c, root) ==
  IF cacheHas(c, root)
  THEN Append(cacheRemove(c, root), c[cacheIndex(c, root, 1)])
  ELSE c

\* add or replace, evicting the least recently used entry when full
cachePut(c, root, st) ==
  LET added == Append(cacheRemove(c, root), [root |-> root, st |-> st])
  IN IF Len(added) > CacheSize THEN Tail(added) ELSE added

cacheRoots(c) == {c[i].root : i \in 1..Len(c)}

(* ------------------ replay collaborators (replay.go) ------------------- *)
\* full states of the hot section at or before slot
SavedStatesAtOrBelow(slot) == {r \in DOMAIN dbStates : dbStates[r].slot <= slot}

\* lastSavedState(slot): the saved full states with the highest slot at or
\* before slot; the lookup is by slot only, so competing states of one slot
\* are all candidates; {NilState} when there is none
lastSavedState(slot) ==
  LET cand == SavedStatesAtOrBelow(slot)
      top  == {r \in cand : \A q \in cand : dbStates[q].slot <= dbStates[r].slot}
  IN IF cand = {} THEN {NilState} ELSE {dbStates[r] : r \in top}

\* lastSavedBlock(slot): the saved blocks with the highest slot at or before
\* slot (the genesis block is always saved)
lastSavedBlock(slot) ==
  LET cand == {r \in DOMAIN blocks : blocks[r].slot <= slot}
  IN {r \in cand : \A q \in cand : blocks[q].slot <= blocks[r].slot}

\* ancestry chain ending at root, oldest first, cut below slot start
RECURSIVE Chain(_, _)
Chain(root, start) ==
  IF root = NoRoot \/ root \notin DOMAIN blocks THEN <<>>
  ELSE IF blocks[root].slot < start THEN <<>>
  ELSE Append(Chain(blocks[root].parent, start), root)

\* LoadBlocks(startSlot, endSlot, endRoot): the blocks of the range that lead
\* to endRoot, in increasing slot order
LoadBlocks(startSlot, endSlot, endRoot) ==
  LET inRange == {r \in DOMAIN blocks :
                    blocks[r].slot >= startSlot /\ blocks[r].slot <= endSlot}
  IN IF inRange = {} THEN [err |-> "nil", blks |-> <<>>]
     ELSE IF endRoot \notin inRange
          THEN [err |-> "DiscontinuousChain", blks |-> <<>>]
          ELSE [err |-> "nil", blks |-> Chain(endRoot, startSlot)]

\* applying the blocks blks[i..] to the working copy st
RECURSIVE applyBlocks(_, _, _)
applyBlocks(st, blks, i) ==
  IF i > Len(blks) THEN [err |-> "nil", st |-> st]
  ELSE IF blocks[blks[i]].parent # st.head \/ blocks[blks[i]].slot <= st.slot
       THEN [err |-> "DiscontinuousChain", st |-> NilState]
       ELSE applyBlocks([slot |-> blocks[blks[i]].slot, head |-> blks[i]], blks, i + 1)

\* ReplayBlocks(state, blocks, targetSlot): applies the blocks in order, then
\* advances through the block-less slots up to targetSlot
ReplayBlocks(st, blks, targetSlot) ==
  LET done == applyBlocks(st, blks, 1)
  IN IF done.err # "nil" THEN done
     ELSE IF done.st.slot > targetSlot
          THEN [err |-> "InvalidTransition", st |-> NilState]
          ELSE [err |-> "nil", st |-> [slot |-> targetSlot, head |-> done.st.head]]

(* ------------------------------- cold.go ------------------------------- *)
\* saveColdState(blockRoot, state): archives the state on an archived point
saveColdState(blockRoot, st, fault) ==
  IF st.slot % SlotsPerArchivedPoint # 0 THEN [err |-> "nil", cold |-> coldStates]
  ELSE IF fault = "SaveState" THEN [err |-> "StoreIO", cold |-> coldStates]
  ELSE [err |-> "nil", cold |-> MapPut(coldStates, blockRoot, st)]

(* ------------------------------ setter.go ------------------------------ *)
\* the comparison with the split slot made inclusive
routesToCold_Inclusive(st) == st.slot <= splitInfo.slot

\* true when SaveState hands the state to the cold section
routesToCold(st) == st.slot < splitInfo.slot

\* the goroutines that call into the state service concurrently: a block
\* processing worker, which saves and loads states, and a query handler, which
\* loads them
Callers == {"worker", "query"}

Savers == {"worker"}

\* the callers that only load
Loaders == Callers \ Savers

\* a call in progress: pc is the statement it is at, split the split slot at
\* the time of the call, slot the slot of the summary it read, start the state
\* lastSavedState gave it; err and res are what it returns once pc is "done";
\* race (history) tells that the call began while the other caller was inside
\* loadHotStateByRoot for the same root, quiet (history) that nothing but
\* quiet loadHotStateByRoot calls has written to the store or the cache since
\* the call began
Proc(pc, op, root, st, split, slot, start, err, res) ==
  [pc |-> pc, op |-> op, root |-> root, st |-> st, split |-> split,
   slot |-> slot, start |-> start, err |-> err, res |-> res,
   blks |-> <<>>, calls |-> <<>>, failed |-> "none", held |-> FALSE,
   race |-> FALSE, quiet |-> TRUE]

IdleProc == Proc("idle", "none", NoRoot, NilState, 0, 0, NilState, "nil", NilState)

\* the caller c is inside loadHotStateByRoot(root), after its cache miss and
\* before its Put
InFlight(c, root) ==
  /\ proc[c].op = "loadHotStateByRoot"
  /\ proc[c].root = root
  /\ proc[c].pc \in {"StateSummary", "lastSavedState", "LoadBlocks",
                    "ReplayBlocks", "Put"}

(* ---------------- slasher: detection of attester slashings ------------ *)
Epochs == 0..MaxEpoch

Validators == 1..MaxValidator

Sigs == 0..MaxSig

Roots == 0..MaxRoot

\* an indexed attestation: its data (the beacon block root voted for, which
\* stands for slot and committee index too, and the source and target
\* epoch), its attesting indices, and the prefix of its signature the store
\* keys it by
IndexedAttestations ==
  {a \in [root : Roots, src : Epochs, tgt : Epochs,
          idx : (SUBSET Validators) \ {{}}, sig : Sigs] : a.src < a.tgt}

NoAttestation == [root |-> 0, src |-> 0, tgt |-> 0, idx |-> {}, sig |-> 0]

\* a nil *ethpb.AttesterSlashing
NoSlashing ==
  [Attestation_1 |-> NoAttestation, Attestation_2 |-> NoAttestation]

Kinds == {"DoubleVote", "SurroundVote"}

\* types.DetectionResult
DetectionResult ==
  [Kind : Kinds, SlashableEpoch : Epochs, SigBytes : Sigs,
   ValidatorIndex : Validators]

\* the results the span detector may report for the indices S of an
\* attestation: at most one per attesting index, in index order
RECURSIVE DetectionResults(_)
DetectionResults(S) ==
  IF S = {} THEN {<<>>}
  ELSE LET v == CHOOSE x \in S : \A y \in S : x <= y
           rest == DetectionResults(S \ {v})
       IN rest \cup
          {<<r>> \o t : r \in {x \in DetectionResult : x.ValidatorIndex = v},
                        t \in rest}

\* the attesting indices in ascending order, as they are encoded
RECURSIVE SortedIndices(_)
SortedIndices(S) ==
  IF S = {} THEN <<>>
  ELSE LET v == CHOOSE x \in S : \A y \in S : x <= y
       IN <<v>> \o SortedIndices(S \ {v})

\* the data of an attestation
Data(att) == <<att.root, att.src, att.tgt>>

\* proto.Marshal of an indexed attestation: its fields in field order
Marshal(att) == <<SortedIndices(att.idx), Data(att), att.sig>>

\* hash.go:103-119: a nil message is ErrNilProto, a panic of proto.Marshal is
\* recovered as ErrNilProto, an error of proto.Marshal is returned; otherwise
\* the sha256 digest of the encoding of both attestations: two slashings have
\* the same digest exactly when their encodings are equal
HashProto(ss, fault) ==
  IF ss = NoSlashing THEN [hash |-> <<>>, err |-> "ErrNilProto"]
  ELSE IF fault = "MarshalPanic" THEN [hash |-> <<>>, err |-> "ErrNilProto"]
  ELSE IF fault = "Marshal" THEN [hash |-> <<>>, err |-> "MarshalError"]
  ELSE [hash |-> <<Marshal(ss.Attestation_1), Marshal(ss.Attestation_2)>>,
        err |-> "nil"]

\* detect.go:166: the data differ and the target epochs are equal
isDoubleVote(incomingAtt, prevAtt) ==
  /\ Data(incomingAtt) # Data(prevAtt)
  /\ incomingAtt.tgt = prevAtt.tgt

\* detect.go:170
isSurrounding(incomingAtt, prevAtt) ==
  /\ incomingAtt.src < prevAtt.src
  /\ incomingAtt.tgt > prevAtt.tgt

\* slasherDB.IndexedAttestationsWithPrefix: the stored attestations of the
\* target epoch whose signature starts with sigBytes, in store order
IndexedAttestationsWithPrefix(db, epoch, sigBytes) ==
  SelectSeq(db, LAMBDA a : a.tgt = epoch /\ a.sig = sigBytes)

\* the loop over otherAtts returns at the first position of hits, the
\* positions whose attestation is slashable; 0 if the loop runs to its end
FirstSlashable(hits) ==
  IF hits = {} THEN 0 ELSE CHOOSE i \in hits : \A j \in hits : i <= j

\* detect.go:79
detectDoubleVote(db, incomingAtt, detectionResult, fault) ==
  IF detectionResult.Kind # "DoubleVote"
  THEN [slashing |-> NoSlashing, err |-> "nil"]
  ELSE IF fault = "IndexedAttestationsWithPrefix"
  THEN [slashing |-> NoSlashing, err |-> "StoreIO"]
  ELSE
    LET otherAtts == IndexedAttestationsWithPrefix(
                       db, detectionResult.SlashableEpoch,
                       detectionResult.SigBytes)
        i == FirstSlashable(
               {k \in 1..Len(otherAtts) :
                  /\ detectionResult.ValidatorIndex \in otherAtts[k].idx
                  /\ isDoubleVote(incomingAtt, otherAtts[k])})
    IN IF i = 0
       THEN [slashing |-> NoSlashing, err |-> "nil"]
       ELSE [slashing |-> [Attestation_1 |-> incomingAtt,
                           Attestation_2 |-> otherAtts[i]],
             err |-> "nil"]

\* detect.go:118 with the loop running to its end without an error
detectSurroundVotes_NoError(db, incomingAtt, detectionResult, fault) ==
  IF detectionResult.Kind # "SurroundVote"
  THEN [slashing |-> NoSlashing, err |-> "nil"]
  ELSE IF fault = "IndexedAttestationsWithPrefix"
  THEN [slashing |-> NoSlashing, err |-> "StoreIO"]
  ELSE
    LET otherAtts == IndexedAttestationsWithPrefix(
                       db, detectionResult.SlashableEpoch,
                       detectionResult.SigBytes)
        i == FirstSlashable(
               {k \in 1..Len(otherAtts) :
                  /\ detectionResult.ValidatorIndex \in otherAtts[k].idx
                  /\ \/ isSurrounding(incomingAtt, otherAtts[k])
                     \/ isSurrounding(otherAtts[k], incomingAtt)})
    IN IF i = 0
       THEN [slashing |-> NoSlashing, err |-> "nil"]
       ELSE IF isSurrounding(incomingAtt, otherAtts[i])
       THEN [slashing |-> [Attestation_1 |-> incomingAtt,
                           Attestation_2 |-> otherAtts[i]],
             err |-> "nil"]
       ELSE [slashing |-> [Attestation_1 |-> otherAtts[i],
                           Attestation_2 |-> incomingAtt],
             err |-> "nil"]

\* detect.go:118
detectSurroundVotes(db, incomingAtt, detectionResult, fault) ==
  IF detectionResult.Kind # "SurroundVote"
  THEN [slashing |-> NoSlashing, err |-> "nil"]
  ELSE IF fault = "IndexedAttestationsWithPrefix"
  THEN [slashing |-> NoSlashing, err |-> "StoreIO"]
  ELSE
    LET otherAtts == IndexedAttestationsWithPrefix(
                       db, detectionResult.SlashableEpoch,
                       detectionResult.SigBytes)
        i == FirstSlashable(
               {k \in 1..Len(otherAtts) :
                  /\ detectionResult.ValidatorIndex \in otherAtts[k].idx
                  /\ \/ isSurrounding(incomingAtt, otherAtts[k])
                     \/ isSurrounding(otherAtts[k], incomingAtt)})
    IN IF i = 0
       THEN [slashing |-> NoSlashing, err |-> "FalsePositive"]
       ELSE IF isSurrounding(incomingAtt, otherAtts[i])
       THEN [slashing |-> [Attestation_1 |-> incomingAtt,
                           Attestation_2 |-> otherAtts[i]],
             err |-> "nil"]
       ELSE [slashing |-> [Attestation_1 |-> otherAtts[i],
                           Attestation_2 |-> incomingAtt],
             err |-> "nil"]

\* detect.go:53-64: the slashings whose hash was not seen before; a hash that
\* fails ends the loop with its error (with a fault the first one fails: a
\* later one failing gives the same result)
RECURSIVE clearDuplicates(_, _, _, _)
clearDuplicates(slashings, keys, slashingList, fault) ==
  IF slashings = <<>> THEN [slashingList |-> slashingList, err |-> "nil"]
  ELSE LET ss == Head(slashings)
           hashed == HashProto(ss, fault)
       IN IF hashed.err # "nil"
          THEN [slashingList |-> <<>>, err |-> hashed.err]
          ELSE IF hashed.hash \in keys
          THEN clearDuplicates(Tail(slashings), keys, slashingList, fault)
          ELSE clearDuplicates(Tail(slashings), keys \cup {hashed.hash},
                               Append(slashingList, ss), fault)

\* a DetectAttesterSlashings call: pc is the statement it is at, k the number
\* of results the loop has dealt with, slashings the slashings detected so
\* far; res and err are what it returns once pc is "done"; called tells
\* whether SaveAttesterSlashings was called and saved with which list
Detection(pc, att, results, k, slashings, res, err, called, saved) ==
  [pc |-> pc, att |-> att, results |-> results, k |-> k,
   slashings |-> slashings, res |-> res, err |-> err, called |-> called,
   saved |-> saved]

NoDetection ==
  Detection("idle", NoAttestation, <<>>, 0, <<>>, <<>>, "nil", FALSE, <<>>)

(* ------------------------------- actions ------------------------------- *)
Init ==
  /\ blocks = [r \in {GenesisRoot} |-> [slot |-> 0, parent |-> NoRoot]]
  /\ dbStates = [r \in {GenesisRoot} |-> [slot |-> 0, head |-> GenesisRoot]]
  /\ dbSummaries = [r \in {GenesisRoot} |-> [slot |-> 0, root |-> GenesisRoot]]
  /\ coldStates = [r \in {} |-> NilState]
  /\ hotStateCache = <<>>
  /\ splitInfo = [slot |-> 0, root |-> GenesisRoot]
  /\ savedCached = {}
  /\ heap = <<>>
  /\ cacheObj = <<>>
  /\ callerObj = 0
  /\ proc = [c \in Callers |-> IdleProc]
  /\ dbOrder = "unknown"
  /\ slasherDB = <<>>
  /\ detection = NoDetection

\* finalization advances the split boundary to the processed block root: the
\* hot entries below the new boundary move to the cold section and are purged
\* from the hot state cache and the checkpoint index
Migration(root) ==
  LET n     == dbSummaries[root].slot
      moved == {r \in DOMAIN dbStates :
                  dbStates[r].slot < n /\ dbStates[r].slot % SlotsPerArchivedPoint = 0}
  IN
  /\ n > splitInfo.slot
  /\ splitInfo' = [slot |-> n, root |-> root]
  /\ coldStates' = [r \in (DOMAIN coldStates) \cup moved |->
                      IF r \in moved THEN dbStates[r] ELSE coldStates[r]]
  /\ dbStates' = MapRestrict(dbStates, {r \in DOMAIN dbStates : dbStates[r].slot >= n})
  /\ dbSummaries' = MapRestrict(dbSummaries,
                                {r \in DOMAIN dbSummaries : dbSummaries[r].slot >= n})
  /\ hotStateCache' = SelectSeq(hotStateCache, LAMBDA e : e.st.slot >= n)
  /\ savedCached' = savedCached \cap cacheRoots(hotStateCache')
  /\ UNCHANGED blocks

(* --------------- concurrent callers, statement by statement ------------ *)
\* no lock is taken in SaveState, saveHotState, loadHotStateByRoot or
\* loadHotStateBySlot: between two accesses of the split boundary, the cache
\* or the beacon DB by one caller, the other caller and the migration may run

\* what the callers leave alone
seqVars == <<objVars, detectVars>>

\* the caller c goes on to the statement pc after the collaborator call
At(c, pc, call) ==
  [proc[c] EXCEPT !.pc = pc, !.calls = Append(@, call)]

\* the call of the caller c returns err and res
Returns(c, err, res) ==
  [proc[c] EXCEPT !.pc = "done", !.err = err, !.res = res]

\* the collaborator call of the caller c fails and the call returns err
Fails(c, call, err) ==
  [proc[c] EXCEPT !.pc = "done", !.err = err, !.res = NilState,
                  !.calls = Append(@, call), !.failed = call]

\* the calls after the caller c has begun the call f: the call that another
\* call was racing with is over
Begun(c, f) ==
  [d \in Callers |-> IF d = c THEN f ELSE [proc[d] EXCEPT !.race = FALSE]]

\* the calls p after a write of SaveState, of the migration or of a call that
\* was not quiet itself: the loadHotStateByRoot calls in progress or just
\* returned are not quiet
Written(p) ==
  [c \in Callers |->
     IF p[c].op = "loadHotStateByRoot"
     THEN [p[c] EXCEPT !.quiet = FALSE]
     ELSE p[c]]

\* the order of two roots in the keys of the beacon DB
RECURSIVE RootKey(_)
RootKey(root) ==
  IF root = NoRoot THEN <<>> ELSE <<root[1], root[3]>> \o RootKey(root[2])

RECURSIVE KeyLess(_, _)
KeyLess(a, b) ==
  IF a = <<>> THEN b # <<>>
  ELSE IF b = <<>> THEN FALSE
  ELSE IF a[1] # b[1] THEN a[1] < b[1]
  ELSE KeyLess(Tail(a), Tail(b))

\* the orders in which a lookup may find the roots S listed: the order becomes
\* known with the first lookup that finds more than one entry
Orders(S) ==
  IF dbOrder = "unknown" /\ Cardinality(S) > 1
  THEN {"ascending", "descending"}
  ELSE {dbOrder}

\* the order known after a lookup that found the roots S in this order
Observed(S, order) == IF Cardinality(S) > 1 THEN order ELSE dbOrder

\* the first of the roots S in the order the beacon DB lists them
FirstRoot(S, order) ==
  CHOOSE r \in S : \A q \in S \ {r} :
    IF order = "ascending" THEN KeyLess(RootKey(r), RootKey(q))
    ELSE KeyLess(RootKey(q), RootKey(r))

\* the roots of the states lastSavedState(slot) chooses from
lastSavedStateRoots(slot) ==
  {r \in DOMAIN dbStates : dbStates[r] \in lastSavedState(slot) \ {NilState}}

\* lastSavedState(slot) as a caller gets it: the answer is a function of the
\* store, two lookups in an unchanged store give the same state
lastSavedStateOf(slot, order) ==
  IF lastSavedStateRoots(slot) = {} THEN NilState
  ELSE dbStates[FirstRoot(lastSavedStateRoots(slot), order)]

\* lastSavedBlock(slot) as a caller gets it
lastSavedBlockOf(slot, order) == FirstRoot(lastSavedBlock(slot), order)

\* setter.go:17: SaveState(root, state) reads the split slot and picks the
\* section; bs is the block store at the time of the call
BeginSaveState(c, bs, root, st) ==
  /\ blocks' = bs
  /\ IF routesToCold(st)
     THEN proc' = Written(Begun(c,
               Proc("saveColdState", "saveColdState", root, st, splitInfo.slot, 0,
                    NilState, "nil", NilState)))
     ELSE proc' = Written(Begun(c,
               Proc("Has", "saveHotState", root, st, splitInfo.slot, 0,
                    NilState, "nil", NilState)))
  /\ UNCHANGED <<dbStates, dbSummaries, coldStates, hotStateCache, splitInfo,
                 savedCached, dbOrder, detectVars>>

\* the root of a new block of this slot on this parent
NewRoot(slot, parent) ==
  BlockRoot(slot, parent,
            Cardinality({r \in DOMAIN blocks :
                           blocks[r].slot = slot /\ blocks[r].parent = parent}))

\* the calls of SaveState the block processing makes: for the post-state of a
\* new block, which is in the beacon DB by then, or of a stored block; the
\* block store holds at most maxBlocks blocks besides the genesis block
SaveStateInputs(maxBlocks) ==
  {[bs   |-> MapPut(blocks, NewRoot(x[1], x[2]), [slot |-> x[1], parent |-> x[2]]),
    root |-> NewRoot(x[1], x[2]),
    st   |-> [slot |-> x[1], head |-> NewRoot(x[1], x[2])]] :
     x \in {y \in Slots \X DOMAIN blocks :
              /\ Cardinality(DOMAIN blocks) <= maxBlocks
              /\ y[1] > blocks[y[2]].slot}}
  \cup {[bs |-> blocks, root |-> root, st |-> PostState(root)] :
          root \in DOMAIN blocks}

\* a caller starts SaveState
CallSaveState(c, maxBlocks) ==
  /\ c \in Savers
  /\ proc[c].pc \in {"idle", "done"}
  /\ \E in \in SaveStateInputs(maxBlocks) : BeginSaveState(c, in.bs, in.root, in.st)
  /\ UNCHANGED objVars

\* setter.go:18: return s.saveColdState(ctx, blockRoot, state), whose store
\* write may fail
SaveStateCold(c) ==
  /\ proc[c].op = "saveColdState" /\ proc[c].pc = "saveColdState"
  /\ \E fault \in {"none", "SaveState"} :
       LET out == saveColdState(proc[c].root, proc[c].st, fault) IN
       /\ coldStates' = out.cold
       /\ proc' = Written([proc EXCEPT ![c] =
            IF out.err = "nil"
            THEN [At(c, "done", "saveColdState") EXCEPT !.err = "nil"]
            ELSE Fails(c, "saveColdState", out.err)])
  /\ UNCHANGED <<blocks, dbStates, dbSummaries, hotStateCache, splitInfo,
                 savedCached, dbOrder, seqVars>>

\* the cache check left out: the call goes on to the store writes
saveHotStateHas_NoCacheCheck(c) ==
  /\ proc[c].op = "saveHotState" /\ proc[c].pc = "Has"
  /\ IF IsEpochStart(proc[c].st.slot)
     THEN proc' = [proc EXCEPT ![c].pc = "SaveState"]
     ELSE proc' = [proc EXCEPT ![c].pc = "SaveStateSummary"]
  /\ UNCHANGED <<blocks, dbStates, dbSummaries, coldStates, hotStateCache,
                 splitInfo, savedCached, dbOrder, seqVars>>

\* hot.go:24: if s.hotStateCache.Has(blockRoot) { return nil }
saveHotStateHas(c) ==
  /\ proc[c].op = "saveHotState" /\ proc[c].pc = "Has"
  /\ IF cacheHas(hotStateCache, proc[c].root)
     THEN /\ proc' = [proc EXCEPT ![c] = Returns(c, "nil", NilState)]
          /\ savedCached' = savedCached \cup {proc[c].root}
     ELSE /\ IF IsEpochStart(proc[c].st.slot)
             THEN proc' = [proc EXCEPT ![c].pc = "SaveState"]
             ELSE proc' = [proc EXCEPT ![c].pc = "SaveStateSummary"]
          /\ UNCHANGED savedCached
  /\ UNCHANGED <<blocks, dbStates, dbSummaries, coldStates, hotStateCache,
                 splitInfo, dbOrder, seqVars>>

\* the write of the full state with its error ignored: after a failure the
\* call goes on to the summary
saveHotStateSaveState_IgnoresError(c) ==
  /\ proc[c].op = "saveHotState" /\ proc[c].pc = "SaveState"
  /\ \/ /\ dbStates' = MapPut(dbStates, proc[c].root, proc[c].st)
        /\ proc' = Written([proc EXCEPT ![c] = At(c, "SaveStateSummary", "SaveState")])
     \/ /\ proc' = [proc EXCEPT ![c] =
                      [At(c, "SaveStateSummary", "SaveState") EXCEPT !.failed = "SaveState"]]
        /\ UNCHANGED dbStates
  /\ UNCHANGED <<blocks, dbSummaries, coldStates, hotStateCache, splitInfo,
                 savedCached, dbOrder, seqVars>>

\* hot.go:30: s.beaconDB.SaveState(ctx, state, blockRoot), which may fail
saveHotStateSaveState(c) ==
  /\ proc[c].op = "saveHotState" /\ proc[c].pc = "SaveState"
  /\ \/ /\ dbStates' = MapPut(dbStates, proc[c].root, proc[c].st)
        /\ proc' = Written([proc EXCEPT ![c] = At(c, "SaveStateSummary", "SaveState")])
     \/ /\ proc' = [proc EXCEPT ![c] = Fails(c, "SaveState", "StoreIO")]
        /\ UNCHANGED dbStates
  /\ UNCHANGED <<blocks, dbSummaries, coldStates, hotStateCache, splitInfo,
                 savedCached, dbOrder, seqVars>>

\* the pointer written only for the roots that have no full snapshot
saveHotStateSaveStateSummary_SummaryElse(c) ==
  /\ proc[c].op = "saveHotState" /\ proc[c].pc = "SaveStateSummary"
  /\ \/ /\ dbSummaries' = (IF IsEpochStart(proc[c].st.slot) THEN dbSummaries
                           ELSE MapPut(dbSummaries, proc[c].root,
                                  [slot |-> proc[c].st.slot, root |-> proc[c].root]))
        /\ proc' = Written([proc EXCEPT ![c] = At(c, "Put", "SaveStateSummary")])
     \/ /\ proc' = [proc EXCEPT ![c] = Fails(c, "SaveStateSummary", "StoreIO")]
        /\ UNCHANGED dbSummaries
  /\ UNCHANGED <<blocks, dbStates, coldStates, hotStateCache, splitInfo,
                 savedCached, dbOrder, seqVars>>

\* hot.go:39: s.beaconDB.SaveStateSummary(ctx, {Slot, Root}), which may fail
saveHotStateSaveStateSummary(c) ==
  /\ proc[c].op = "saveHotState" /\ proc[c].pc = "SaveStateSummary"
  /\ \/ /\ dbSummaries' = MapPut(dbSummaries, proc[c].root,
                                 [slot |-> proc[c].st.slot, root |-> proc[c].root])
        /\ proc' = Written([proc EXCEPT ![c] = At(c, "Put", "SaveStateSummary")])
     \/ /\ proc' = [proc EXCEPT ![c] = Fails(c, "SaveStateSummary", "StoreIO")]
        /\ UNCHANGED dbSummaries
  /\ UNCHANGED <<blocks, dbStates, coldStates, hotStateCache, splitInfo,
                 savedCached, dbOrder, seqVars>>

\* hot.go:47-49: s.hotStateCache.Put(blockRoot, state); return nil
saveHotStatePut(c) ==
  /\ proc[c].op = "saveHotState" /\ proc[c].pc = "Put"
  /\ hotStateCache' = cachePut(hotStateCache, proc[c].root, proc[c].st)
  /\ savedCached' = (savedCached \cup {proc[c].root}) \cap cacheRoots(hotStateCache')
  /\ proc' = Written([proc EXCEPT ![c] = Returns(c, "nil", NilState)])
  /\ UNCHANGED <<blocks, dbStates, dbSummaries, coldStates, splitInfo, dbOrder,
                 detectVars>>

saveHotStatePutCache(c) == saveHotStatePut(c) /\ UNCHANGED objVars

\* hot.go:60-63: a caller starts loadHotStateByRoot(blockRoot) and asks the
\* cache; a cached state is returned at once
loadHotStateByRootGet(c) ==
  /\ proc[c].pc \in {"idle", "done"}
  /\ \E blockRoot \in DOMAIN blocks :
       LET cachedState == cacheGet(hotStateCache, blockRoot)
           race        == \E d \in Callers \ {c} : InFlight(d, blockRoot)
       IN
       IF cachedState # NilState
       THEN /\ hotStateCache' = cacheTouch(hotStateCache, blockRoot)
            /\ proc' = Begun(c,
                 [Proc("done", "loadHotStateByRoot", blockRoot, NilState,
                       splitInfo.slot, 0, NilState, "nil", cachedState)
                  EXCEPT !.race = race, !.held = blockRoot \in savedCached])
       ELSE /\ proc' = Begun(c,
                 [Proc("StateSummary", "loadHotStateByRoot", blockRoot, NilState,
                       splitInfo.slot, 0, NilState, "nil", NilState)
                  EXCEPT !.race = race])
            /\ UNCHANGED hotStateCache
  /\ UNCHANGED <<blocks, dbStates, dbSummaries, coldStates, splitInfo,
                 savedCached, dbOrder, detectVars>>

CallLoadHotStateByRoot(c) == loadHotStateByRootGet(c) /\ UNCHANGED objVars

\* the lookup of the pointer that takes a missing pointer for one of slot 0
loadHotStateByRootSummary_NoSummaryCheck(c) ==
  /\ proc[c].op = "loadHotStateByRoot" /\ proc[c].pc = "StateSummary"
  /\ \/ proc' = [proc EXCEPT ![c] = Fails(c, "StateSummary", "StoreIO")]
     \/ proc' = [proc EXCEPT ![c] =
                   [At(c, "lastSavedState", "StateSummary") EXCEPT
                      !.slot = IF proc[c].root \in DOMAIN dbSummaries
                               THEN dbSummaries[proc[c].root].slot ELSE 0]]
  /\ UNCHANGED <<blocks, dbStates, dbSummaries, coldStates, hotStateCache,
                 splitInfo, savedCached, dbOrder, seqVars>>

\* hot.go:65-71: summary, err := s.beaconDB.StateSummary(ctx, blockRoot), which
\* may fail; a nil summary is errUnknownStateSummary
loadHotStateByRootSummary(c) ==
  /\ proc[c].op = "loadHotStateByRoot" /\ proc[c].pc = "StateSummary"
  /\ \/ proc' = [proc EXCEPT ![c] = Fails(c, "StateSummary", "StoreIO")]
     \/ IF proc[c].root \notin DOMAIN dbSummaries
        THEN proc' = [proc EXCEPT ![c] =
                        [At(c, "done", "StateSummary") EXCEPT
                           !.err = "errUnknownStateSummary"]]
        ELSE proc' = [proc EXCEPT ![c] =
                        [At(c, "lastSavedState", "StateSummary") EXCEPT
                           !.slot = dbSummaries[proc[c].root].slot]]
  /\ UNCHANGED <<blocks, dbStates, dbSummaries, coldStates, hotStateCache,
                 splitInfo, savedCached, dbOrder, seqVars>>

\* the lookup of the start state that also caches it under the requested root
loadHotStateByRootLastSavedState_CachesStart(c) ==
  LET slot  == StartSlot(SlotToEpoch(proc[c].slot))
      found == lastSavedStateRoots(slot)
  IN
  /\ proc[c].op = "loadHotStateByRoot" /\ proc[c].pc = "lastSavedState"
  /\ \/ /\ proc' = [proc EXCEPT ![c] = Fails(c, "lastSavedState", "StoreIO")]
        /\ UNCHANGED <<hotStateCache, savedCached, dbOrder>>
     \/ \E order \in Orders(found) :
          LET startState == lastSavedStateOf(slot, order) IN
          /\ dbOrder' = Observed(found, order)
          /\ IF startState = NilState
             THEN /\ proc' = [proc EXCEPT ![c] =
                                [At(c, "done", "lastSavedState") EXCEPT
                                   !.err = "errUnknownBoundaryState"]]
                  /\ UNCHANGED <<hotStateCache, savedCached>>
             ELSE /\ proc' = [proc EXCEPT ![c] =
                         [At(c, IF proc[c].slot = startState.slot
                                THEN "Put" ELSE "LoadBlocks", "lastSavedState")
                          EXCEPT !.start = startState,
                                 !.res = IF proc[c].slot = startState.slot
                                         THEN startState ELSE NilState]]
                  /\ hotStateCache' = cachePut(hotStateCache, proc[c].root, startState)
                  /\ savedCached' = savedCached \cap cacheRoots(hotStateCache')
  /\ UNCHANGED <<blocks, dbStates, dbSummaries, coldStates, splitInfo, seqVars>>

\* hot.go:73-84: startState, err := s.lastSavedState(ctx,
\* StartSlot(SlotToEpoch(summary.Slot))), which may fail; a nil state is
\* errUnknownBoundaryState; hotState is the start state when it is of the
\* target slot
loadHotStateByRootLastSavedState(c) ==
  LET slot  == StartSlot(SlotToEpoch(proc[c].slot))
      found == lastSavedStateRoots(slot)
  IN
  /\ proc[c].op = "loadHotStateByRoot" /\ proc[c].pc = "lastSavedState"
  /\ \/ /\ proc' = [proc EXCEPT ![c] = Fails(c, "lastSavedState", "StoreIO")]
        /\ UNCHANGED dbOrder
     \/ \E order \in Orders(found) :
          LET startState == lastSavedStateOf(slot, order) IN
          /\ dbOrder' = Observed(found, order)
          /\ IF startState = NilState
             THEN proc' = [proc EXCEPT ![c] =
                             [At(c, "done", "lastSavedState") EXCEPT
                                !.err = "errUnknownBoundaryState"]]
             ELSE proc' = [proc EXCEPT ![c] =
                      [At(c, IF proc[c].slot = startState.slot
                             THEN "Put" ELSE "LoadBlocks", "lastSavedState")
                       EXCEPT !.start = startState,
                              !.res = IF proc[c].slot = startState.slot
                                      THEN startState ELSE NilState]]
  /\ UNCHANGED <<blocks, dbStates, dbSummaries, coldStates, hotStateCache,
                 splitInfo, savedCached, seqVars>>

\* the load of the blocks with the start state put in the cache first
loadHotStateByRootLoadBlocks_CachesFirst(c) ==
  /\ proc[c].op = "loadHotStateByRoot" /\ proc[c].pc = "LoadBlocks"
  /\ hotStateCache' = cachePut(hotStateCache, proc[c].root, proc[c].start)
  /\ savedCached' = savedCached \cap cacheRoots(hotStateCache')
  /\ \/ proc' = [proc EXCEPT ![c] = Fails(c, "LoadBlocks", "StoreIO")]
     \/ LET loaded == LoadBlocks(proc[c].start.slot + 1, proc[c].slot, proc[c].root) IN
        IF loaded.err # "nil"
        THEN proc' = [proc EXCEPT ![c] =
                        [At(c, "done", "LoadBlocks") EXCEPT !.err = loaded.err]]
        ELSE proc' = [proc EXCEPT ![c] =
                        [At(c, "ReplayBlocks", "LoadBlocks") EXCEPT !.blks = loaded.blks]]
  /\ UNCHANGED <<blocks, dbStates, dbSummaries, coldStates, splitInfo, dbOrder,
                 seqVars>>

\* hot.go:87-90: blks, err := s.LoadBlocks(ctx, startState.Slot()+1,
\* targetSlot, bytesutil.ToBytes32(summary.Root)), which may fail
loadHotStateByRootLoadBlocks(c) ==
  /\ proc[c].op = "loadHotStateByRoot" /\ proc[c].pc = "LoadBlocks"
  /\ \/ proc' = [proc EXCEPT ![c] = Fails(c, "LoadBlocks", "StoreIO")]
     \/ LET loaded == LoadBlocks(proc[c].start.slot + 1, proc[c].slot, proc[c].root) IN
        IF loaded.err # "nil"
        THEN proc' = [proc EXCEPT ![c] =
                        [At(c, "done", "LoadBlocks") EXCEPT !.err = loaded.err]]
        ELSE proc' = [proc EXCEPT ![c] =
                        [At(c, "ReplayBlocks", "LoadBlocks") EXCEPT !.blks = loaded.blks]]
  /\ UNCHANGED <<blocks, dbStates, dbSummaries, coldStates, hotStateCache,
                 splitInfo, savedCached, dbOrder, seqVars>>

\* the replay that returns the start state
loadHotStateByRootReplayBlocks_ReturnsStart(c) ==
  /\ proc[c].op = "loadHotStateByRoot" /\ proc[c].pc = "ReplayBlocks"
  /\ \/ proc' = [proc EXCEPT ![c] = Fails(c, "ReplayBlocks", "InvalidTransition")]
     \/ LET replayed == ReplayBlocks(proc[c].start, proc[c].blks, proc[c].slot) IN
        IF replayed.err # "nil"
        THEN proc' = [proc EXCEPT ![c] =
                        [At(c, "done", "ReplayBlocks") EXCEPT !.err = replayed.err]]
        ELSE proc' = [proc EXCEPT ![c] =
                        [At(c, "Put", "ReplayBlocks") EXCEPT !.res = proc[c].start]]
  /\ UNCHANGED <<blocks, dbStates, dbSummaries, coldStates, hotStateCache,
                 splitInfo, savedCached, dbOrder, seqVars>>

\* hot.go:91-94: hotState, err = s.ReplayBlocks(ctx, startState, blks,
\* targetSlot), which may fail
loadHotStateByRootReplayBlocks(c) ==
  /\ proc[c].op = "loadHotStateByRoot" /\ proc[c].pc = "ReplayBlocks"
  /\ \/ proc' = [proc EXCEPT ![c] = Fails(c, "ReplayBlocks", "InvalidTransition")]
     \/ LET replayed == ReplayBlocks(proc[c].start, proc[c].blks, proc[c].slot) IN
        IF replayed.err # "nil"
        THEN proc' = [proc EXCEPT ![c] =
                        [At(c, "done", "ReplayBlocks") EXCEPT !.err = replayed.err]]
        ELSE proc' = [proc EXCEPT ![c] =
                        [At(c, "Put", "ReplayBlocks") EXCEPT !.res = replayed.st]]
  /\ UNCHANGED <<blocks, dbStates, dbSummaries, coldStates, hotStateCache,
                 splitInfo, savedCached, dbOrder, seqVars>>

\* hot.go:98-100: s.hotStateCache.Put(blockRoot, hotState.Copy()); return
\* hotState, nil
loadHotStateByRootPut(c) ==
  /\ proc[c].op = "loadHotStateByRoot" /\ proc[c].pc = "Put"
  /\ hotStateCache' = cachePut(hotStateCache, proc[c].root, proc[c].res)
  /\ savedCached' = savedCached \cap cacheRoots(hotStateCache')
  /\ LET p == [proc EXCEPT ![c].pc = "done"]
     IN proc' = IF proc[c].quiet THEN p ELSE Written(p)
  /\ UNCHANGED <<blocks, dbStates, dbSummaries, coldStates, splitInfo, dbOrder,
                 detectVars>>

loadHotStateByRootPutCache(c) == loadHotStateByRootPut(c) /\ UNCHANGED objVars

\* hot.go:112: a caller starts loadHotStateBySlot(slot): startState, err :=
\* s.lastSavedState(ctx, slot); the error is overwritten by the next
\* assignment to err
CallLoadHotStateBySlot(c) ==
  /\ proc[c].pc \in {"idle", "done"}
  /\ \E slot \in Slots :
       \/ /\ proc' = Begun(c,
                [Proc("lastSavedBlock", "loadHotStateBySlot", NoRoot, NilState,
                      splitInfo.slot, slot, NilState, "nil", NilState)
                 EXCEPT !.calls = <<"lastSavedState">>, !.failed = "lastSavedState"])
          /\ UNCHANGED dbOrder
       \/ \E order \in Orders(lastSavedStateRoots(slot)) :
            /\ proc' = Begun(c,
                  [Proc("lastSavedBlock", "loadHotStateBySlot", NoRoot, NilState,
                        splitInfo.slot, slot, lastSavedStateOf(slot, order),
                        "nil", NilState)
                   EXCEPT !.calls = <<"lastSavedState">>])
            /\ dbOrder' = Observed(lastSavedStateRoots(slot), order)
  /\ UNCHANGED <<blocks, dbStates, dbSummaries, coldStates, hotStateCache,
                 splitInfo, savedCached, seqVars>>

\* hot.go:115-118: lastValidRoot, lastValidSlot, err := s.lastSavedBlock(ctx,
\* slot), which may fail; then startState.Slot() of hot.go:121 is evaluated,
\* which on a nil state panics or reads 0
loadHotStateBySlotLastSavedBlock(c) ==
  /\ proc[c].op = "loadHotStateBySlot" /\ proc[c].pc = "lastSavedBlock"
  /\ \/ /\ proc' = [proc EXCEPT ![c] = Fails(c, "lastSavedBlock", "StoreIO")]
        /\ UNCHANGED dbOrder
     \/ \E order \in Orders(lastSavedBlock(proc[c].slot)) :
          /\ dbOrder' = Observed(lastSavedBlock(proc[c].slot), order)
          /\ \/ proc' = [proc EXCEPT ![c] =
                        [At(c, "LoadBlocks", "lastSavedBlock") EXCEPT
                           !.root = lastSavedBlockOf(proc[c].slot, order)]]
             \/ /\ proc[c].start = NilState
                /\ proc' = [proc EXCEPT ![c] =
                      [At(c, "done", "lastSavedBlock") EXCEPT !.err = "panic"]]
  /\ UNCHANGED <<blocks, dbStates, dbSummaries, coldStates, hotStateCache,
                 splitInfo, savedCached, seqVars>>

\* hot.go:121-124: replayBlks, err := s.LoadBlocks(ctx, startState.Slot()+1,
\* lastValidSlot, lastValidRoot), which may fail
loadHotStateBySlotLoadBlocks(c) ==
  /\ proc[c].op = "loadHotStateBySlot" /\ proc[c].pc = "LoadBlocks"
  /\ \/ proc' = [proc EXCEPT ![c] = Fails(c, "LoadBlocks", "StoreIO")]
     \/ LET loaded == LoadBlocks(proc[c].start.slot + 1,
                                 blocks[proc[c].root].slot, proc[c].root) IN
        IF loaded.err # "nil"
        THEN proc' = [proc EXCEPT ![c] =
                        [At(c, "done", "LoadBlocks") EXCEPT !.err = loaded.err]]
        ELSE proc' = [proc EXCEPT ![c] =
                        [At(c, "ReplayBlocks", "LoadBlocks") EXCEPT !.blks = loaded.blks]]
  /\ UNCHANGED <<blocks, dbStates, dbSummaries, coldStates, hotStateCache,
                 splitInfo, savedCached, dbOrder, seqVars>>

\* the replay up to the slot of the last saved block instead of the
\* requested slot
loadHotStateBySlotReplayBlocks_ToLastBlock(c) ==
  /\ proc[c].op = "loadHotStateBySlot" /\ proc[c].pc = "ReplayBlocks"
  /\ \/ proc' = [proc EXCEPT ![c] = Fails(c, "ReplayBlocks", "InvalidTransition")]
     \/ LET replayed == ReplayBlocks(proc[c].start, proc[c].blks,
                                     blocks[proc[c].root].slot) IN
        IF proc[c].start = NilState
        THEN proc' = [proc EXCEPT ![c] =
                        [At(c, "done", "ReplayBlocks") EXCEPT !.err = "InvalidTransition"]]
        ELSE proc' = [proc EXCEPT ![c] =
                        [At(c, "done", "ReplayBlocks") EXCEPT
                           !.err = replayed.err, !.res = replayed.st]]
  /\ UNCHANGED <<blocks, dbStates, dbSummaries, coldStates, hotStateCache,
                 splitInfo, savedCached, dbOrder, seqVars>>

\* hot.go:126: return s.ReplayBlocks(ctx, startState, replayBlks, slot), which
\* may fail and has no state to start from when startState is nil
loadHotStateBySlotReplayBlocks(c) ==
  /\ proc[c].op = "loadHotStateBySlot" /\ proc[c].pc = "ReplayBlocks"
  /\ \/ proc' = [proc EXCEPT ![c] = Fails(c, "ReplayBlocks", "InvalidTransition")]
     \/ LET replayed == ReplayBlocks(proc[c].start, proc[c].blks, proc[c].slot) IN
        IF proc[c].start = NilState
        THEN proc' = [proc EXCEPT ![c] =
                        [At(c, "done", "ReplayBlocks") EXCEPT !.err = "InvalidTransition"]]
        ELSE proc' = [proc EXCEPT ![c] =
                        [At(c, "done", "ReplayBlocks") EXCEPT
                           !.err = replayed.err, !.res = replayed.st]]
  /\ UNCHANGED <<blocks, dbStates, dbSummaries, coldStates, hotStateCache,
                 splitInfo, savedCached, dbOrder, seqVars>>

\* the finalization migration runs, whatever the callers are doing
Finalize ==
  /\ \E root \in DOMAIN dbSummaries : Migration(root)
  /\ proc' = Written(proc)
  /\ UNCHANGED <<dbOrder, seqVars>>

NextSteps ==
  \/ \E c \in Callers : CallSaveState(c, MaxBlocksSteps)
  \/ \E c \in Callers : SaveStateCold(c)
  \/ \E c \in Callers : saveHotStateHas(c)
  \/ \E c \in Callers : saveHotStateSaveState(c)
  \/ \E c \in Callers : saveHotStateSaveStateSummary(c)
  \/ \E c \in Callers : saveHotStatePutCache(c)
  \/ \E c \in Callers : CallLoadHotStateByRoot(c)
  \/ \E c \in Callers : loadHotStateByRootSummary(c)
  \/ \E c \in Callers : loadHotStateByRootLastSavedState(c)
  \/ \E c \in Callers : loadHotStateByRootLoadBlocks(c)
  \/ \E c \in Callers : loadHotStateByRootReplayBlocks(c)
  \/ \E c \in Loaders : CallLoadHotStateBySlot(c)
  \/ \E c \in Loaders : loadHotStateBySlotLastSavedBlock(c)
  \/ \E c \in Loaders : loadHotStateBySlotLoadBlocks(c)
  \/ \E c \in Loaders : loadHotStateBySlotReplayBlocks(c)
  \/ \E c \in Callers : loadHotStateByRootPutCache(c)
  \/ Finalize

SpecSteps == Init /\ [][NextSteps]_vars

(* ---------------- one caller, statement by statement ------------------- *)
\* the migration runs while no call is in progress
FinalizeBetweenCalls ==
  /\ \A c \in Callers : proc[c].pc \in {"idle", "done"}
  /\ Finalize

\* the calls of the block processing worker alone, with the points between
\* the statements of the calls visible
NextOneCaller ==
  \/ \E c \in Savers : CallSaveState(c, MaxBlocks)
  \/ \E c \in Savers : SaveStateCold(c)
  \/ \E c \in Savers : saveHotStateHas(c)
  \/ \E c \in Savers : saveHotStateSaveState(c)
  \/ \E c \in Savers : saveHotStateSaveStateSummary(c)
  \/ \E c \in Savers : saveHotStatePutCache(c)
  \/ \E c \in Savers : CallLoadHotStateByRoot(c)
  \/ \E c \in Savers : loadHotStateByRootSummary(c)
  \/ \E c \in Savers : loadHotStateByRootLastSavedState(c)
  \/ \E c \in Savers : loadHotStateByRootLoadBlocks(c)
  \/ \E c \in Savers : loadHotStateByRootReplayBlocks(c)
  \/ \E c \in Savers : loadHotStateByRootPutCache(c)
  \/ \E c \in Savers : CallLoadHotStateBySlot(c)
  \/ \E c \in Savers : loadHotStateBySlotLastSavedBlock(c)
  \/ \E c \in Savers : loadHotStateBySlotLoadBlocks(c)
  \/ \E c \in Savers : loadHotStateBySlotReplayBlocks(c)
  \/ FinalizeBetweenCalls

SpecOneCaller == Init /\ [][NextOneCaller]_vars

(* ---------------- snapshots as objects: callers and the cache ----------- *)
\* a *state.BeaconState is a pointer: the caller of SaveState keeps the
\* object it passed, the caller of loadHotStateByRoot gets one back, and
\* both may go on to change it in place (process the next slots on it)
Pointers == 1..(CacheSize + 3)

\* a pointer not in use
NewObj(h) == CHOOSE o \in Pointers : o \notin DOMAIN h /\ \A q \in Pointers : q < o => q \in DOMAIN h

\* the objects still referenced by the cache or by the caller
Live(h, c, o) == MapRestrict(h, {c[r] : r \in DOMAIN c} \cup {o})

\* state.Copy(): a new object with the same content
Copy(h, obj) == [heap |-> MapPut(h, NewObj(h), h[obj]), obj |-> NewObj(h)]

\* the pointers of the cache once the cache is c
cacheObjAfter(objs, c) == MapRestrict(objs, cacheRoots(c))

\* a caller starts SaveState with the pointer of a new object of its own
CallSaveStateObj(c, maxBlocks) ==
  /\ c \in Savers
  /\ proc[c].pc \in {"idle", "done"}
  /\ \E in \in SaveStateInputs(maxBlocks) :
       LET state == NewObj(heap) IN
       /\ BeginSaveState(c, in.bs, in.root, in.st)
       /\ callerObj' = state
       /\ heap' = Live(MapPut(heap, state, in.st), cacheObj, state)
       /\ UNCHANGED cacheObj

\* hot.go:47: s.hotStateCache.Put(blockRoot, state): the cache gets the
\* pointer of the caller's state. Put keeps the pointer it is given, which is
\* why loadHotStateByRoot copies before it puts
saveHotStatePutCacheObj(c) ==
  /\ saveHotStatePut(c)
  /\ cacheObj' = cacheObjAfter(MapPut(cacheObj, proc[c].root, callerObj), hotStateCache')
  /\ heap' = Live(heap, cacheObj', callerObj)
  /\ UNCHANGED callerObj

\* hot.go:60-63: hotStateCache.Get(blockRoot) gives a copy of the cached
\* object, which the caller keeps; on a miss the caller holds nothing yet
CallLoadHotStateByRootObj(c) ==
  /\ loadHotStateByRootGet(c)
  /\ LET hit == proc'[c].pc = "done"
         got == Copy(heap, cacheObj[proc'[c].root])
     IN /\ callerObj' = IF hit THEN got.obj ELSE 0
        /\ heap' = Live(IF hit THEN got.heap ELSE heap, cacheObj, callerObj')
  /\ UNCHANGED cacheObj

\* hot.go:98-100: s.hotStateCache.Put(blockRoot, hotState.Copy()); return
\* hotState, nil: the cache gets a copy, the caller the object itself
loadHotStateByRootPutCacheObj(c) ==
  /\ loadHotStateByRootPut(c)
  /\ LET hotState == NewObj(heap)
         copied   == Copy(MapPut(heap, hotState, proc[c].res), hotState)
     IN /\ cacheObj' = cacheObjAfter(MapPut(cacheObj, proc[c].root, copied.obj),
                                     hotStateCache')
        /\ callerObj' = hotState
        /\ heap' = Live(copied.heap, cacheObj', hotState)

\* the migration purges the cache: the objects of the purged entries go
FinalizeBetweenCallsObj ==
  /\ \A c \in Callers : proc[c].pc \in {"idle", "done"}
  /\ \E root \in DOMAIN dbSummaries : Migration(root)
  /\ proc' = Written(proc)
  /\ cacheObj' = cacheObjAfter(cacheObj, hotStateCache')
  /\ heap' = Live(heap, cacheObj', callerObj)
  /\ UNCHANGED <<callerObj, dbOrder, detectVars>>

\* what the cache holds when the object obj has got the content st
cacheWith(obj, st) ==
  [i \in 1..Len(hotStateCache) |->
     IF cacheObj[hotStateCache[i].root] = obj
     THEN [root |-> hotStateCache[i].root, st |-> st]
     ELSE hotStateCache[i]]

\* between two calls the caller changes the object it holds in place: it
\* processes a slot on it
MutateInPlace ==
  /\ \A c \in Callers : proc[c].pc \in {"idle", "done"}
  /\ callerObj # 0
  /\ heap[callerObj].slot <= MaxSlot
  /\ LET st == [heap[callerObj] EXCEPT !.slot = @ + 1] IN
     /\ heap' = [heap EXCEPT ![callerObj] = st]
     /\ hotStateCache' = cacheWith(callerObj, st)
  /\ UNCHANGED <<blocks, dbStates, dbSummaries, coldStates, splitInfo,
                 savedCached, cacheObj, callerObj, proc, dbOrder, detectVars>>

\* the calls of the block processing worker with the objects followed
NextObj ==
  \/ \E c \in Savers : CallSaveStateObj(c, MaxBlocksSteps)
  \/ \E c \in Savers : SaveStateCold(c)
  \/ \E c \in Savers : saveHotStateHas(c)
  \/ \E c \in Savers : saveHotStateSaveState(c)
  \/ \E c \in Savers : saveHotStateSaveStateSummary(c)
  \/ \E c \in Savers : saveHotStatePutCacheObj(c)
  \/ \E c \in Savers : CallLoadHotStateByRootObj(c)
  \/ \E c \in Savers : loadHotStateByRootSummary(c)
  \/ \E c \in Savers : loadHotStateByRootLastSavedState(c)
  \/ \E c \in Savers : loadHotStateByRootLoadBlocks(c)
  \/ \E c \in Savers : loadHotStateByRootReplayBlocks(c)
  \/ \E c \in Savers : loadHotStateByRootPutCacheObj(c)
  \/ FinalizeBetweenCallsObj
  \/ MutateInPlace

SpecObj == Init /\ [][NextObj]_vars

(* ------------------- the slasher's detection service ------------------- *)
\* an attestation reaches the slasher store, whatever the detection is doing
SaveIndexedAttestation ==
  /\ Len(slasherDB) < MaxAtts
  /\ \E att \in IndexedAttestations : slasherDB' = Append(slasherDB, att)
  /\ UNCHANGED <<detection, stategenVars>>

\* detect.go:23-30: DetectAttesterSlashings(att) asks the span detector,
\* which may fail; without results there is nothing to do
DetectAttesterSlashingsCall ==
  /\ detection = NoDetection
  /\ \E att \in IndexedAttestations :
       \/ detection' = Detection("done", att, <<>>, 0, <<>>, <<>>, "DetectorIO",
                                 FALSE, <<>>)
       \/ \E results \in DetectionResults(att.idx) :
            detection' = Detection(IF Len(results) = 0 THEN "done" ELSE "results",
                                   att, results, 0, <<>>, <<>>, "nil", FALSE, <<>>)
  /\ UNCHANGED <<slasherDB, stategenVars>>

\* detect.go:38-40, 43-45, 47-49: an error of the detection ends the call, a
\* slashing is appended, and the loop goes on to the next result
AfterResult(d) ==
  IF d.err # "nil"
  THEN [detection EXCEPT !.pc = "done", !.err = d.err]
  ELSE [detection EXCEPT
          !.k = @ + 1,
          !.slashings = IF d.slashing # NoSlashing
                        THEN Append(@, d.slashing) ELSE @,
          !.pc = IF detection.k + 1 = Len(detection.results)
                 THEN "SaveAttesterSlashings" ELSE "results"]

\* detect.go:36-40: the loop deals with a DoubleVote result; the store is read
\* as it is now
DetectAttesterSlashingsDoubleVote ==
  /\ detection.pc = "results"
  /\ detection.results[detection.k + 1].Kind = "DoubleVote"
  /\ \E fault \in {"none", "IndexedAttestationsWithPrefix"} :
       detection' = AfterResult(detectDoubleVote(
                      slasherDB, detection.att,
                      detection.results[detection.k + 1], fault))
  /\ UNCHANGED <<slasherDB, stategenVars>>

\* detect.go:41-45: the loop deals with a SurroundVote result
DetectAttesterSlashingsSurroundVote ==
  /\ detection.pc = "results"
  /\ detection.results[detection.k + 1].Kind = "SurroundVote"
  /\ \E fault \in {"none", "IndexedAttestationsWithPrefix"} :
       detection' = AfterResult(detectSurroundVotes(
                      slasherDB, detection.att,
                      detection.results[detection.k + 1], fault))
  /\ UNCHANGED <<slasherDB, stategenVars>>

\* detect.go:52-69: the duplicates are cleared, which fails when a slashing
\* cannot be hashed; SaveAttesterSlashings, which may fail, is called with
\* slashings; slashingList is returned
DetectAttesterSlashingsSave ==
  /\ detection.pc = "SaveAttesterSlashings"
  /\ \E fault \in {"none", "MarshalPanic", "Marshal", "SaveAttesterSlashings"} :
       LET cleared == clearDuplicates(detection.slashings, {}, <<>>, fault) IN
       detection' =
         IF cleared.err # "nil"
         THEN [detection EXCEPT !.pc = "done", !.err = cleared.err]
         ELSE IF fault = "SaveAttesterSlashings"
         THEN [detection EXCEPT !.pc = "done", !.err = "StoreIO",
                                !.called = TRUE, !.saved = detection.slashings]
         ELSE [detection EXCEPT !.pc = "done", !.res = cleared.slashingList,
                                !.called = TRUE, !.saved = detection.slashings]
  /\ UNCHANGED <<slasherDB, stategenVars>>

\* the caller takes the result of the detection; the next call can start
ReturnDetection ==
  /\ detection.pc = "done"
  /\ detection' = NoDetection
  /\ UNCHANGED <<slasherDB, stategenVars>>

NextDetect ==
  \/ SaveIndexedAttestation
  \/ DetectAttesterSlashingsCall
  \/ DetectAttesterSlashingsDoubleVote
  \/ DetectAttesterSlashingsSurroundVote
  \/ DetectAttesterSlashingsSave
  \/ ReturnDetection

SpecDetect == Init /\ [][NextDetect]_vars

(* ------------------------------- claims -------------------------------- *)
HotStores == <<dbStates, dbSummaries, hotStateCache>>

AllStores == <<blocks, dbStates, dbSummaries, coldStates, hotStateCache, splitInfo>>

\* the caller c executes a statement of the call it is in
Steps(c) == proc[c].pc \notin {"idle", "done"} /\ proc'[c].pc # proc[c].pc

\* the call of the caller c returns in this step
ReturnsNow(c) == Steps(c) /\ proc'[c].pc = "done"

\* C1 (cache transparency): whenever loadHotStateByRoot returns a state for a
\* root, from the cache or rebuilt from lastSavedState plus replay, it is the
\* snapshot that was saved under that root
C1_CacheTransparency ==
  \A c \in Callers :
    (proc[c].op = "loadHotStateByRoot" /\ proc[c].pc = "done" /\ proc[c].err = "nil")
      => proc[c].res = PostState(proc[c].root)

\* C2 (idempotence): a saveHotState that returns success leaves its root in
\* the cache, and a saveHotState that finds its root in the cache returns
\* success at once, with no store write and the store and the cache as they
\* were
C2_Idempotence ==
  [][\A c \in Callers :
       (proc[c].op = "saveHotState" /\ Steps(c)) =>
         /\ (proc'[c].pc = "done" /\ proc'[c].err = "nil")
              => cacheHas(hotStateCache', proc[c].root)
         /\ (proc[c].pc = "Has" /\ cacheHas(hotStateCache, proc[c].root)) =>
              /\ proc'[c].pc = "done"
              /\ proc'[c].err = "nil"
              /\ proc'[c].calls = <<>>
              /\ UNCHANGED AllStores]_vars

C2_Witness ==
  \E c \in Callers :
    /\ proc[c].op = "saveHotState" /\ proc[c].pc = "done"
    /\ proc[c].err = "nil" /\ proc[c].calls = <<>>
    /\ proc[c].st.slot % SlotsPerEpoch = 0 /\ proc[c].root # GenesisRoot
    /\ cacheGet(hotStateCache, proc[c].root) = proc[c].st

\* C3 (boundary correctness): a root whose saveHotState succeeds has its
\* checkpoint pointer {slot, root}; a root with a pointer has a full snapshot
\* exactly when its slot is a multiple of the epoch length; no other full
\* snapshot is in the hot section
C3_BoundaryCorrectness ==
  [][/\ \A c \in Callers :
          (proc[c].op = "saveHotState" /\ ReturnsNow(c) /\ proc'[c].err = "nil")
            => /\ proc[c].root \in DOMAIN dbSummaries'
               /\ dbSummaries'[proc[c].root]
                    = [slot |-> proc[c].st.slot, root |-> proc[c].root]
     /\ \A r \in DOMAIN dbSummaries' :
          /\ dbSummaries'[r] = [slot |-> blocks'[r].slot, root |-> r]
          /\ r \in DOMAIN dbStates' <=> blocks'[r].slot % SlotsPerEpoch = 0
     /\ \A r \in DOMAIN dbStates' :
          /\ dbStates'[r].slot % SlotsPerEpoch = 0
          /\ dbStates'[r] = [slot |-> blocks'[r].slot, head |-> r]]_vars

C3_Witness ==
  \E c \in Callers :
    /\ proc[c].op = "saveHotState" /\ proc[c].pc = "done" /\ proc[c].err = "nil"
    /\ proc[c].calls = <<"SaveState", "SaveStateSummary">>
    /\ proc[c].root \in DOMAIN dbStates /\ proc[c].root # GenesisRoot
    /\ \E q \in DOMAIN dbSummaries : q \notin DOMAIN dbStates

\* C4 (round trip on a hit): after a successful saveHotState of a root, while
\* the root is still in the cache, loadHotStateByRoot returns the saved
\* snapshot without any lookup, load or replay
C4_RoundTripOnHit ==
  \A c \in Callers :
    (proc[c].op = "loadHotStateByRoot" /\ proc[c].held)
      => /\ proc[c].pc = "done"
         /\ proc[c].err = "nil"
         /\ proc[c].calls = <<>>
         /\ proc[c].res = PostState(proc[c].root)

\* C5 (routing): SaveState hands the state to saveColdState exactly when its
\* slot is below the split slot it reads and to saveHotState otherwise; the
\* call then is that manager's: the cold route leaves the hot section alone
\* and returns what saveColdState returns, the hot route leaves the cold
\* section alone; and no statement of SaveState changes the split boundary
C5_SaveStateRouting ==
  [][\A c \in Callers :
       /\ (proc[c].pc \in {"idle", "done"}
           /\ proc'[c].op \in {"saveColdState", "saveHotState"}
           /\ proc'[c].pc \in {"saveColdState", "Has"}) =>
            /\ proc'[c].pc = "saveColdState" <=> proc'[c].st.slot < splitInfo.slot
            /\ proc'[c].pc = "Has" <=> proc'[c].st.slot >= splitInfo.slot
            /\ proc'[c].op = "saveColdState" <=> proc'[c].pc = "saveColdState"
            /\ UNCHANGED <<HotStores, coldStates, splitInfo>>
       /\ (proc[c].op = "saveColdState" /\ Steps(c)) =>
            /\ UNCHANGED <<HotStores, splitInfo>>
            /\ proc'[c].pc = "done"
            /\ \E fault \in {"none", "SaveState"} :
                 /\ proc'[c].err = saveColdState(proc[c].root, proc[c].st, fault).err
                 /\ coldStates' = saveColdState(proc[c].root, proc[c].st, fault).cold
       /\ (proc[c].op = "saveHotState" /\ Steps(c)) =>
            UNCHANGED <<coldStates, splitInfo>>]_vars

\* a state of the split slot itself, above slot 0, has gone the hot way and
\* is written
C5_Witness ==
  \E c \in Callers :
    /\ proc[c].op = "saveHotState" /\ proc[c].pc = "done" /\ proc[c].err = "nil"
    /\ proc[c].split > 0 /\ proc[c].st.slot = proc[c].split
    /\ proc[c].calls # <<>>
    /\ GenesisRoot \in DOMAIN coldStates

\* C6 (migration boundary): no entry of the hot state cache has a slot below
\* the split slot, and no SaveState of a state below the split slot is in the
\* hands of the hot manager
C6_MigrationBoundary ==
  /\ \A i \in 1..Len(hotStateCache) : hotStateCache[i].st.slot >= splitInfo.slot
  /\ \A c \in Callers :
       (proc[c].op = "saveHotState" /\ proc[c].pc \notin {"idle", "done"})
         => proc[c].st.slot >= splitInfo.slot

\* C7: loadHotStateBySlot of a slot of the hot region fails with
\* NoValidAncestor, without crashing, when lastSavedState finds no full
\* snapshot at or before the slot
C7_NoValidAncestor ==
  \A c \in Callers :
    (/\ proc[c].op = "loadHotStateBySlot" /\ proc[c].pc = "done"
     /\ proc[c].failed = "none"
     /\ proc[c].slot >= proc[c].split
     /\ proc[c].start = NilState)
      => proc[c].err = "NoValidAncestor"

\* C8 (no swallowed errors): when a store write or lookup, lastSavedState,
\* lastSavedBlock, LoadBlocks or ReplayBlocks fails inside saveHotState,
\* loadHotStateByRoot or loadHotStateBySlot, the operation returns an error
C8_NoSwallowedErrors ==
  \A c \in Callers :
    (/\ proc[c].op \in {"saveHotState", "loadHotStateByRoot", "loadHotStateBySlot"}
     /\ proc[c].pc = "done"
     /\ proc[c].failed # "none")
      => proc[c].err \notin {"nil", "panic"}

\* C9: a loadHotStateByRoot that missed the cache and finds no checkpoint
\* pointer for its root fails, with errUnknownStateSummary when the lookup
\* itself works, and has not changed and does not change the cache or the
\* store
C9_UnknownSummary ==
  [][\A c \in Callers :
       /\ (proc[c].pc \in {"idle", "done"} /\ proc'[c].pc = "StateSummary")
            => UNCHANGED AllStores
       /\ (/\ proc[c].op = "loadHotStateByRoot"
           /\ proc[c].pc = "StateSummary" /\ Steps(c)
           /\ proc[c].root \notin DOMAIN dbSummaries) =>
            /\ proc'[c].pc = "done"
            /\ proc'[c].err # "nil"
            /\ proc'[c].failed = "none" => proc'[c].err = "errUnknownStateSummary"
            /\ proc'[c].res = NilState
            /\ UNCHANGED AllStores]_vars

C9_Witness ==
  \E c \in Callers :
    /\ proc[c].op = "loadHotStateByRoot" /\ proc[c].pc = "done"
    /\ proc[c].err = "errUnknownStateSummary"
    /\ proc[c].root \in DOMAIN blocks
    /\ Len(hotStateCache) > 0

\* C10 (no partial writes): a statement of loadHotStateByRoot or
\* loadHotStateBySlot changes the cache, the full snapshots or the pointers
\* only when the call returns success with it: a call that fails, in
\* particular in LoadBlocks or ReplayBlocks, has written nothing
C10_NoPartialWrites ==
  [][\A c \in Callers :
       /\ (proc[c].op \in {"loadHotStateByRoot", "loadHotStateBySlot"} /\ Steps(c)) =>
            (UNCHANGED AllStores \/ (proc'[c].pc = "done" /\ proc'[c].err = "nil"))
       /\ (/\ proc[c].pc \in {"idle", "done"}
           /\ proc'[c].op \in {"loadHotStateByRoot", "loadHotStateBySlot"}
           /\ proc'[c].pc \notin {"idle", "done"}) => UNCHANGED AllStores]_vars

C10_Witness ==
  \E c \in Callers :
    /\ proc[c].op = "loadHotStateByRoot" /\ proc[c].pc = "done"
    /\ proc[c].err \in {"StoreIO", "InvalidTransition"}
    /\ proc[c].calls = <<"StateSummary", "lastSavedState", "LoadBlocks", "ReplayBlocks">>
    /\ Len(hotStateCache) > 0
    /\ \E d \in Callers :
         /\ proc[d].op = "loadHotStateBySlot" /\ proc[d].pc = "done"
         /\ proc[d].err = "StoreIO" /\ proc[d].failed = "LoadBlocks"

\* C11 (replay target): on a cache miss of a root with pointer slot p, the
\* start state is a full snapshot lastSavedState has for the epoch-start slot
\* of p; when its slot b is not p, the blocks of slots b+1..p ending at root
\* are requested and replayed onto it with target slot p, and the result, a
\* snapshot of slot p, is cached under root and returned
C11_ReplayTarget ==
  [][\A c \in Callers :
       (proc[c].op = "loadHotStateByRoot" /\ Steps(c)) =>
         /\ (proc[c].pc = "lastSavedState" /\ proc'[c].pc # "done") =>
              /\ proc'[c].start \in
                   lastSavedState((proc[c].slot \div SlotsPerEpoch) * SlotsPerEpoch)
              /\ proc'[c].start # NilState
              /\ proc'[c].start.slot # proc[c].slot => proc'[c].pc = "LoadBlocks"
         /\ (proc[c].pc = "LoadBlocks" /\ proc'[c].pc # "done") =>
              LET loaded == LoadBlocks(proc[c].start.slot + 1, proc[c].slot, proc[c].root)
              IN /\ proc'[c].pc = "ReplayBlocks"
                 /\ loaded.err = "nil"
                 /\ proc'[c].blks = loaded.blks
                 /\ \A i \in 1..Len(loaded.blks) :
                      /\ blocks[loaded.blks[i]].slot > proc[c].start.slot
                      /\ blocks[loaded.blks[i]].slot <= proc[c].slot
         /\ (proc[c].pc = "ReplayBlocks" /\ proc'[c].pc # "done") =>
              /\ proc'[c].pc = "Put"
              /\ proc'[c].res = ReplayBlocks(proc[c].start, proc[c].blks, proc[c].slot).st
              /\ proc'[c].res.slot = proc[c].slot
         /\ proc[c].pc = "Put" =>
              /\ proc'[c].pc = "done" /\ proc'[c].err = "nil"
              /\ proc'[c].res = proc[c].res
              /\ hotStateCache' = cachePut(hotStateCache, proc[c].root, proc[c].res)]_vars

C11_Witness ==
  \E c \in Callers :
    /\ proc[c].op = "loadHotStateByRoot" /\ proc[c].pc = "done" /\ proc[c].err = "nil"
    /\ proc[c].calls = <<"StateSummary", "lastSavedState", "LoadBlocks", "ReplayBlocks">>
    /\ proc[c].blks = <<proc[c].root>>
    /\ proc[c].start.slot + 1 < proc[c].slot
    /\ proc[c].res = [slot |-> proc[c].slot, head |-> proc[c].root]
    /\ proc[c].res.slot % SlotsPerEpoch # 0
    /\ cacheGet(hotStateCache, proc[c].root) = proc[c].res

\* the caller changes in place the object it holds
Mutates ==
  /\ heap' # heap
  /\ DOMAIN heap' = DOMAIN heap
  /\ proc' = proc

\* C12 (no aliasing): the cache holds its own copy of every snapshot: when a
\* caller changes in place the snapshot it passed to saveHotState or got from
\* loadHotStateByRoot, no entry of the cache changes, so that what a later
\* loadHotStateByRoot returns for any root stays the same
C12_NoAliasing ==
  [][Mutates => \A root \in DOMAIN blocks :
                  UNCHANGED cacheGet(hotStateCache, root)]_vars

\* the hot region holds nothing below the split slot
NothingHotBelowSplit ==
  /\ \A r \in DOMAIN dbStates : dbStates[r].slot >= splitInfo.slot
  /\ \A r \in DOMAIN dbSummaries : dbSummaries[r].slot >= splitInfo.slot
  /\ \A i \in 1..Len(hotStateCache) : hotStateCache[i].st.slot >= splitInfo.slot

\* C13 (split-boundary serialization): however SaveState and the migration
\* interleave, once the calls have returned no snapshot with a slot below the
\* split slot is in the hot region or in the hot state cache
C13_SplitSerialization ==
  (\A c \in Callers : proc[c].pc \in {"idle", "done"}) => NothingHotBelowSplit

\* C14 (concurrent cache misses): when a caller runs loadHotStateByRoot for a
\* root while the other caller is inside loadHotStateByRoot for the same
\* uncached root, no store read of either call fails and no SaveState and no
\* migration writes meanwhile, both calls return the same result, and after
\* two successes the cache holds that snapshot under the root
C14_ConcurrentMisses ==
  \A c \in Callers : \A d \in Callers \ {c} :
    (/\ proc[c].pc = "done" /\ proc[d].pc = "done"
     /\ proc[c].op = "loadHotStateByRoot" /\ proc[d].op = "loadHotStateByRoot"
     /\ proc[c].root = proc[d].root
     /\ proc[d].race
     /\ proc[c].failed = "none" /\ proc[d].failed = "none"
     /\ proc[c].quiet /\ proc[d].quiet)
      => /\ proc[c].err = proc[d].err
         /\ proc[c].res = proc[d].res
         /\ proc[c].err = "nil" =>
              cacheGet(hotStateCache, proc[c].root) = proc[c].res

C14_Witness ==
  \E c \in Callers : \E d \in Callers \ {c} :
    /\ proc[c].pc = "done" /\ proc[d].pc = "done"
    /\ proc[c].op = "loadHotStateByRoot" /\ proc[d].op = "loadHotStateByRoot"
    /\ proc[c].root = proc[d].root /\ proc[d].race
    /\ proc[c].err = "nil" /\ proc[d].err = "nil"
    /\ proc[c].calls = <<"StateSummary", "lastSavedState", "LoadBlocks", "ReplayBlocks">>
    /\ proc[d].calls = proc[c].calls
    /\ proc[c].res.slot % SlotsPerEpoch # 0
    /\ proc[c].quiet /\ proc[d].quiet

\* C15 (replay bounded by one epoch): on every cache miss of
\* loadHotStateByRoot, the full snapshot the replay starts from is less than
\* an epoch length below the slot of the root's pointer
C15_ReplayWithinEpoch ==
  \A c \in Callers :
    (proc[c].op = "loadHotStateByRoot" /\ proc[c].start # NilState)
      => proc[c].slot - proc[c].start.slot < SlotsPerEpoch

\* C16 (cache implies persisted): every root in the hot state cache has its
\* checkpoint pointer in the store, and its full snapshot too when the slot of
\* the entry is an epoch-start slot
C16_CacheImpliesPersisted ==
  \A i \in 1..Len(hotStateCache) :
    LET e == hotStateCache[i] IN
    /\ e.root \in DOMAIN dbSummaries
    /\ dbSummaries[e.root].slot = e.st.slot
    /\ e.st.slot % SlotsPerEpoch = 0 => e.root \in DOMAIN dbStates

\* C17: loadHotStateBySlot starts from a full snapshot that lastSavedState has
\* for the slot and asks for the blocks above it up to a block lastSavedBlock
\* has for the slot, a range that never starts more than one slot above its
\* end; when it succeeds it returns a snapshot of the requested slot: the
\* start snapshot with those blocks, ending at the last saved block, applied
\* and the block-less slots up to the requested slot passed
C17_LoadBySlot ==
  [][\A c \in Callers :
       /\ (proc[c].pc \in {"idle", "done"} /\ proc'[c].pc = "lastSavedBlock") =>
            /\ proc'[c].start \in lastSavedState(proc'[c].slot) \cup {NilState}
            /\ proc'[c].start.slot <= proc'[c].slot
       /\ (proc[c].op = "loadHotStateBySlot" /\ Steps(c)) =>
            /\ (proc[c].pc = "lastSavedBlock" /\ proc'[c].pc # "done") =>
                 /\ proc'[c].root \in lastSavedBlock(proc[c].slot)
                 /\ proc[c].start.slot + 1 <= blocks[proc'[c].root].slot + 1
            /\ (proc[c].pc = "LoadBlocks" /\ proc'[c].pc # "done") =>
                 LET blks == proc'[c].blks IN
                 /\ blks = LoadBlocks(proc[c].start.slot + 1,
                                      blocks[proc[c].root].slot, proc[c].root).blks
                 /\ \A i \in 1..Len(blks) :
                      /\ blocks[blks[i]].slot > proc[c].start.slot
                      /\ blocks[blks[i]].slot <= blocks[proc[c].root].slot
                 /\ blks # <<>> => blks[Len(blks)] = proc[c].root
            /\ (proc[c].pc = "ReplayBlocks" /\ proc'[c].err = "nil") =>
                 LET done == applyBlocks(proc[c].start, proc[c].blks, 1) IN
                 /\ proc[c].start # NilState
                 /\ done.err = "nil"
                 /\ proc'[c].res.slot = proc[c].slot
                 /\ proc'[c].res = [slot |-> proc[c].slot, head |-> done.st.head]]_vars

C17_Witness ==
  \E c \in Callers :
    /\ proc[c].op = "loadHotStateBySlot" /\ proc[c].pc = "done" /\ proc[c].err = "nil"
    /\ proc[c].res.slot = proc[c].slot
    /\ proc[c].blks = <<proc[c].root>>
    /\ proc[c].res.head = proc[c].root
    /\ blocks[proc[c].root].slot < proc[c].slot
    /\ proc[c].root \notin DOMAIN dbStates

\* C18 (boundary hit): on a cache miss of a root whose pointer slot is the slot
\* of the full snapshot found, loadHotStateByRoot calls neither LoadBlocks nor
\* ReplayBlocks and goes on to return that snapshot and put it in the cache
\* under the root, and it is the snapshot that was saved under the root
C18_BoundaryHit ==
  [][\A c \in Callers :
       (/\ proc[c].op = "loadHotStateByRoot"
        /\ proc[c].pc = "lastSavedState" /\ Steps(c)
        /\ proc'[c].start # NilState
        /\ proc'[c].start.slot = proc[c].slot) =>
          /\ proc'[c].pc = "Put"
          /\ proc'[c].res = proc'[c].start
          /\ proc[c].root \in DOMAIN dbStates
          /\ proc'[c].res = dbStates[proc[c].root]]_vars

\* C19 (write ordering in saveHotState): at every point between the
\* statements of saveHotState, also after a store write failed, a pointer in
\* the store for an epoch-start root has its full snapshot in the store; the
\* pointer of an epoch-start root is written only when its full snapshot is
\* there, the cache is written only when the pointer is there and the call
\* then returns success, and a call that fails leaves the cache as it was
C19_WriteOrdering ==
  [][/\ \A r \in DOMAIN dbSummaries' :
          dbSummaries'[r].slot % SlotsPerEpoch = 0 => r \in DOMAIN dbStates'
     /\ \A c \in Callers :
          (proc[c].op = "saveHotState" /\ proc[c].pc \notin {"idle", "done"}) =>
            /\ dbSummaries' # dbSummaries =>
                 /\ proc[c].pc = "SaveStateSummary"
                 /\ proc[c].st.slot % SlotsPerEpoch = 0 =>
                      (proc[c].root \in DOMAIN dbStates
                         /\ dbStates[proc[c].root] = proc[c].st)
            /\ dbStates' # dbStates =>
                 /\ proc[c].pc = "SaveState"
                 /\ proc[c].st.slot % SlotsPerEpoch = 0
                 /\ hotStateCache' = hotStateCache
            /\ hotStateCache' # hotStateCache =>
                 /\ proc[c].root \in DOMAIN dbSummaries
                 /\ proc'[c].pc = "done" /\ proc'[c].err = "nil"
            /\ (proc'[c].pc = "done" /\ proc'[c].err # "nil") =>
                 /\ hotStateCache' = hotStateCache
                 /\ ~cacheHas(hotStateCache', proc[c].root)]_vars

C19_Witness ==
  \E c \in Callers :
    /\ proc[c].op = "saveHotState" /\ proc[c].pc = "done"
    /\ proc[c].err = "StoreIO"
    /\ proc[c].st.slot % SlotsPerEpoch = 0 /\ proc[c].st.slot > 0
    /\ proc[c].root \in DOMAIN dbStates
    /\ proc[c].root \notin DOMAIN dbSummaries
    /\ ~cacheHas(hotStateCache, proc[c].root)

\* C20 (DetectAttesterSlashings, duplicates): a call that succeeds returns no
\* two slashings with the same proto hash, keeps the first occurrence of each
\* detected slashing in detection order, and passes to SaveAttesterSlashings
\* exactly the list it returns
C20_DeduplicatedAndPersisted ==
  (detection.pc = "done" /\ detection.err = "nil" /\ detection.called) =>
    LET res == detection.res
        slashings == detection.slashings
        first(ss) == CHOOSE i \in 1..Len(slashings) :
                       /\ slashings[i] = ss
                       /\ \A j \in 1..(i - 1) : slashings[j] # ss
    IN /\ \A i \in 1..Len(res) : \A j \in 1..Len(res) :
            HashProto(res[i], "none") = HashProto(res[j], "none") => i = j
       /\ {res[i] : i \in 1..Len(res)}
            = {slashings[i] : i \in 1..Len(slashings)}
       /\ \A i \in 1..Len(res) : \A j \in 1..Len(res) :
            i < j => first(res[i]) < first(res[j])
       /\ detection.saved = res

\* the stored attestations a SurroundVote result r points at for the
\* incoming attestation att: found under r's epoch and signature prefix,
\* containing r's validator index, and surrounding att or surrounded by it
C21_StoredSurround(att, r) ==
  {a \in {slasherDB[i] : i \in 1..Len(slasherDB)} :
     /\ a.tgt = r.SlashableEpoch /\ a.sig = r.SigBytes
     /\ r.ValidatorIndex \in a.idx
     /\ \/ (att.src < a.src /\ att.tgt > a.tgt)
        \/ (a.src < att.src /\ a.tgt > att.tgt)}

\* C21 (detectSurroundVotes): when the loop deals with a SurroundVote result,
\* the function either gives a slashing whose Attestation_1 surrounds its
\* Attestation_2 (source strictly lower, target strictly higher), made of the
\* incoming attestation and an attestation of the store, as it is at the
\* lookup, that contains the detected validator index, or the false positive
\* error, exactly when the store has no such attestation (a failed store
\* lookup returns the store's error); it never gives no slashing with no
\* error; and an error of it makes DetectAttesterSlashings return an error,
\* no slashing, with SaveAttesterSlashings never called
C21_SurroundVotes ==
  [][(/\ detection.pc = "results"
      /\ detection' # detection
      /\ detection.results[detection.k + 1].Kind = "SurroundVote") =>
       LET att  == detection.att
           r    == detection.results[detection.k + 1]
           such == C21_StoredSurround(att, r)
           new  == detection'.slashings[Len(detection'.slashings)]
       IN \/ /\ detection'.err = "nil"
             /\ such # {}
             /\ detection'.k = detection.k + 1
             /\ detection'.slashings = Append(detection.slashings, new)
             /\ new.Attestation_1.src < new.Attestation_2.src
             /\ new.Attestation_1.tgt > new.Attestation_2.tgt
             /\ \/ (new.Attestation_1 = att /\ new.Attestation_2 \in such)
                \/ (new.Attestation_2 = att /\ new.Attestation_1 \in such)
          \/ /\ detection'.err \in {"FalsePositive", "StoreIO"}
             /\ detection'.err = "FalsePositive" => such = {}
             /\ detection'.pc = "done"
             /\ detection'.res = <<>>
             /\ ~detection'.called
             /\ detection'.saved = <<>>]_vars

\* a call with two SurroundVote results: the first gave a slashing in which
\* the stored attestation surrounds the incoming one, the second was a false
\* positive, and the call failed with nothing saved
C21_Witness ==
  /\ detection.pc = "done"
  /\ Len(detection.results) = 2
  /\ detection.results[1].Kind = "SurroundVote"
  /\ detection.results[2].Kind = "SurroundVote"
  /\ detection.k = 1
  /\ Len(detection.slashings) = 1
  /\ detection.slashings[1].Attestation_2 = detection.att
  /\ detection.slashings[1].Attestation_1 \in
       C21_StoredSurround(detection.att, detection.results[1])
  /\ C21_StoredSurround(detection.att, detection.results[2]) = {}
  /\ detection.err = "FalsePositive"
  /\ ~detection.called

====
